---------------------------- MODULE Spec2Model ----------------------------
(***************************************************************************)
(* State-machine model of the investment-assistant frontend: the           *)
(* Opportunities page, the App dashboard with its chat panel, the Home     *)
(* dashboard and the OpportunityDetailModal, together with the HTTP        *)
(* requests they keep in flight.  React state hooks are the variables;     *)
(* every async handler is cut at its awaits, so that one action is one     *)
(* run-to-completion task of the browser's event loop.  The backend is     *)
(* the environment: it answers a pending request with success or failure.  *)
(***************************************************************************)
EXTENDS Integers, Sequences, FiniteSets, TLC

(***************************************************************************)
(* Strings are sequences of one-character strings, so that toLowerCase,    *)
(* includes, trim and concatenation are computed and not assumed.          *)
(***************************************************************************)
StrUnableToConnect ==
  << "U", "n", "a", "b", "l", "e", " ", "t", "o", " ", "c", "o",
     "n", "n", "e", "c", "t", " ", "t", "o", " ", "T", "e", "c",
     "h", "n", "i", "c", "a", "l", " ", "R", "e", "s", "e", "a",
     "r", "c", "h", "e", "r", " ", "A", "g", "e", "n", "t" >>

StrFailedToFetch ==
  << "F", "a", "i", "l", "e", "d", " ", "t", "o", " ", "f", "e",
     "t", "c", "h", " ", "t", "r", "a", "d", "i", "n", "g", " ",
     "o", "p", "p", "o", "r", "t", "u", "n", "i", "t", "i", "e",
     "s", ":", " " >>

StrFailedToLoadDetails ==
  << "F", "a", "i", "l", "e", "d", " ", "t", "o", " ", "l", "o",
     "a", "d", " ", "o", "p", "p", "o", "r", "t", "u", "n", "i",
     "t", "y", " ", "d", "e", "t", "a", "i", "l", "s", ":", " " >>

StrSorry ==
  << "S", "o", "r", "r", "y", ",", " ", "I", " ", "e", "n", "c",
     "o", "u", "n", "t", "e", "r", "e", "d", " ", "a", "n", " ",
     "e", "r", "r", "o", "r", ":", " " >>

StrNetworkError ==
  << "N", "e", "t", "w", "o", "r", "k", " ", "E", "r", "r", "o",
     "r" >>

StrStatus500 ==
  << "R", "e", "q", "u", "e", "s", "t", " ", "f", "a", "i", "l",
     "e", "d", " ", "w", "i", "t", "h", " ", "s", "t", "a", "t",
     "u", "s", " ", "c", "o", "d", "e", " ", "5", "0", "0" >>

StrOpportunitiesWord ==
  << "o", "p", "p", "o", "r", "t", "u", "n", "i", "t", "i", "e",
     "s" >>

StrAAPL ==
  << "A", "A", "P", "L" >>

StrTSLA ==
  << "T", "S", "L", "A" >>

StrGE ==
  << "N", "Y", "S", "E", ":", "g", "e" >>

StrBullishMomentum ==
  << "B", "u", "l", "l", "i", "s", "h", " ", "M", "o", "m", "e",
     "n", "t", "u", "m" >>

StrShortSqueeze ==
  << "S", "h", "o", "r", "t", " ", "S", "q", "u", "e", "e", "z",
     "e" >>

StrBearishMomentum ==
  << "B", "e", "a", "r", "i", "s", "h", " ", "M", "o", "m", "e",
     "n", "t", "u", "m" >>

StrBreakout ==
  << "B", "r", "e", "a", "k", "o", "u", "t" >>

StrTsla ==
  << "t", "s", "l", "a" >>

StrBullish ==
  << "b", "u", "l", "l", "i", "s", "h" >>

StrMomentum ==
  << "m", "o", "m", "e", "n", "t", "u", "m" >>

StrShort ==
  << "s", "h", "o", "r", "t" >>

StrBear ==
  << "b", "e", "a", "r" >>

StrMSFT ==
  << "m", "s", "f", "t" >>

StrHi ==
  << "h", "i" >>

StrReply ==
  << "B", "u", "y", " ", "l", "o", "w" >>

\* A value that may be null is a sequence of at most one element: Null, or
\* Some(x) whose content is Get(Some(x)) = x.
Null == << >>
Some(x) == << x >>
Get(o) == o[1]

Upper ==
  << "A", "B", "C", "D", "E", "F", "G", "H", "I", "J", "K", "L", "M",
     "N", "O", "P", "Q", "R", "S", "T", "U", "V", "W", "X", "Y", "Z" >>

Lower ==
  << "a", "b", "c", "d", "e", "f", "g", "h", "i", "j", "k", "l", "m",
     "n", "o", "p", "q", "r", "s", "t", "u", "v", "w", "x", "y", "z" >>

\* String.prototype.toLowerCase, one character
LowerOf(c) ==
  IF \E i \in DOMAIN Upper : Upper[i] = c
  THEN Lower[CHOOSE i \in DOMAIN Upper : Upper[i] = c]
  ELSE c

\* String.prototype.toLowerCase
ToLowerCase(s) == [i \in DOMAIN s |-> LowerOf(s[i])]

\* String.prototype.includes: sub occurs in s as a contiguous substring
Includes(s, sub) ==
  \E i \in 0..(Len(s) - Len(sub)) : SubSeq(s, i + 1, i + Len(sub)) = sub

RECURSIVE TrimStart(_)
TrimStart(s) ==
  IF s # << >> /\ Head(s) = " " THEN TrimStart(Tail(s)) ELSE s

RECURSIVE TrimEnd(_)
TrimEnd(s) ==
  IF s # << >> /\ s[Len(s)] = " " THEN TrimEnd(SubSeq(s, 1, Len(s) - 1)) ELSE s

\* String.prototype.trim
Trim(s) == TrimEnd(TrimStart(s))

\* s without its i-th element
RemoveAt(s, i) == SubSeq(s, 1, i - 1) \o SubSeq(s, i + 1, Len(s))

(***************************************************************************)
(* Bounds of the model.                                                    *)
(***************************************************************************)
\* analysis runs one session starts
MaxRuns == 2
\* openings of the detail overlay in one session
MaxOpens == 3
\* chat messages one session sends
MaxChats == 2
\* rows in one list response of the Home dashboard
MaxRows == 4

(***************************************************************************)
(* The backend's data.  confidence_score is kept in hundredths (85 is the  *)
(* fraction 0.85), price in whole dollars.                                 *)
(***************************************************************************)
Opp1 ==
  [id |-> 1, ticker |-> StrAAPL, setup_type |-> StrBullishMomentum,
   price |-> 190, confidence_score |-> 85]

Opp2 ==
  [id |-> 2, ticker |-> StrTSLA, setup_type |-> StrShortSqueeze,
   price |-> 250, confidence_score |-> 55]

Opp3 ==
  [id |-> 3, ticker |-> StrGE, setup_type |-> StrBearishMomentum,
   price |-> 120, confidence_score |-> 70]

Opp4 ==
  [id |-> 4, ticker |-> StrMSFT, setup_type |-> StrBreakout,
   price |-> 410, confidence_score |-> 71]

\* a row whose ticker is the empty string
Opp5 ==
  [id |-> 5, ticker |-> << >>, setup_type |-> StrBreakout,
   price |-> 15, confidence_score |-> 40]

Rows == {Opp1, Opp2, Opp3, Opp4}

\* the lists of at most n rows with distinct ids
RECURSIVE ListsUpTo(_)
ListsUpTo(n) ==
  IF n = 0 THEN {<< >>}
  ELSE LET shorter == ListsUpTo(n - 1)
           longer == {Append(l, r) : l \in shorter, r \in Rows}
       IN  shorter \cup
           {l \in longer :
              \A i, j \in DOMAIN l : i # j => l[i].id # l[j].id}

\* bodies of GET /opportunities: an empty body, or persisted rows with ids
ListBodies == {Null, Some(<< Opp1, Opp2 >>), Some(<< Opp3 >>)}

\* a transient row of the POST /research response: it has no id yet, which
\* the id 0 stands for
Transient(o) == [o EXCEPT !.id = 0]
HasId(o) == o.id # 0

\* bodies of POST /research
ResearchBodies == {Some(<< Transient(Opp1), Transient(Opp3) >>)}

\* err.message of a rejected axios request
ErrMessages == {StrNetworkError, StrStatus500}

\* values typed into the search box
SearchTerms == {<< >>, StrTsla, StrBear}

FilterTypes == {"all", "bullish", "bearish", "high-confidence"}

Sections == {"technical", "rationale", "chart", "timeline"}

\* the two services start-both.sh waits for, in the order it waits for them
Services == {"backend", "frontend"}

(***************************************************************************)
(* A request is none (not issued), pending, answered (ok with the response *)
(* body, fail with err.message) or done (its continuation has run).        *)
(***************************************************************************)
NoRequest == [status |-> "none", data |-> Null, message |-> << >>]
Pending == [status |-> "pending", data |-> Null, message |-> << >>]
Done == [status |-> "done", data |-> Null, message |-> << >>]
Ok(d) == [status |-> "ok", data |-> d, message |-> << >>]
Fail(m) == [status |-> "fail", data |-> Null, message |-> m]
Failures == {Fail(m) : m \in ErrMessages}
Answered(r) == r.status \in {"ok", "fail"}

VARIABLES
  \* Opportunities page / App (useState hooks)
  opportunities, loading, error, isAgentRunning, agentStatus,
  selectedOpportunity, isModalOpen, lastAnalysisTime, searchTerm, filterType,
  \* OpportunityDetailModal
  details, modalLoading, modalError, expandedSections,
  \* App chat panel
  chatMessages, chatInput,
  \* Home dashboard
  stats,
  \* requests in flight
  healthReq, loadReq, runs, runsStarted, detailReqs, detailsIssued,
  chatReqs, chatsSent,
  \* start-both.sh: position in the script, the loop counter of
  \* wait_for_service, the two return codes, the curl probes made by each
  \* wait, and the closing status line
  pc, attempt, BACKEND_READY, FRONTEND_READY, probes, statusLine

pageVars ==
  << opportunities, loading, error, isAgentRunning, agentStatus,
     lastAnalysisTime, searchTerm, filterType >>

openVars == << selectedOpportunity, isModalOpen >>

modalVars == << details, modalLoading, modalError, expandedSections >>

chatVars == << chatMessages, chatInput, chatReqs, chatsSent >>

detailNet == << detailReqs, detailsIssued >>

pageNet == << healthReq, loadReq, runs, runsStarted >>

scriptVars ==
  << pc, attempt, BACKEND_READY, FRONTEND_READY, probes, statusLine >>

webVars ==
  << pageVars, openVars, modalVars, chatVars, stats, detailNet, pageNet >>

vars == << webVars, scriptVars >>

\* a store that keeps the old rows in front of the response's rows
MergedResponseData(data) ==
  opportunities \o (IF data = Null THEN << >> ELSE Get(data))

\* response.data || []
ResponseData(data) == IF data = Null THEN << >> ELSE Get(data)

(***************************************************************************)
(* Opportunities page                                                      *)
(***************************************************************************)
Init ==
  /\ opportunities = << >>
  /\ loading = FALSE
  /\ error = Null
  /\ isAgentRunning = FALSE
  /\ agentStatus = "checking"
  /\ selectedOpportunity = Null
  /\ isModalOpen = FALSE
  /\ lastAnalysisTime = Null
  /\ searchTerm = << >>
  /\ filterType = "all"
  /\ details = Null
  /\ modalLoading = FALSE
  /\ modalError = Null
  /\ expandedSections = [s \in Sections |-> FALSE]
  /\ chatMessages = << >>
  /\ chatInput = << >>
  /\ stats = [totalOpportunities |-> 0, highConfidence |-> 0,
              bullishSetups |-> 0, bearishSetups |-> 0]
  /\ healthReq = NoRequest
  /\ loadReq = NoRequest
  /\ runs = << >>
  /\ runsStarted = 0
  /\ detailReqs = << >>
  /\ detailsIssued = 0
  /\ chatReqs = << >>
  /\ chatsSent = 0
  /\ pc = "start"
  /\ attempt = 1
  /\ BACKEND_READY = Null
  /\ FRONTEND_READY = Null
  /\ probes = [service \in Services |-> [failed |-> 0, succeeded |-> 0]]
  /\ statusLine = ""

\* the component has run its mount effect
Mounted == healthReq.status # "none"

\* useEffect(..., []): the synchronous parts of checkAgentHealth() and
\* loadExistingOpportunities(), each up to its await
useEffectMount ==
  /\ ~Mounted
  /\ healthReq' = Pending
  /\ loadReq' = Pending
  /\ UNCHANGED << pageVars, openVars, modalVars, chatVars, stats, detailNet,
                  runs, runsStarted >>
  /\ UNCHANGED scriptVars

\* the backend answers GET /health
BackendHealth ==
  /\ healthReq.status = "pending"
  /\ healthReq' \in {Ok(Null)} \cup Failures
  /\ UNCHANGED << pageVars, openVars, modalVars, chatVars, stats, detailNet,
                  loadReq, runs, runsStarted >>
  /\ UNCHANGED scriptVars

\* a health check that tries again after a failure
checkAgentHealthRetrying ==
  /\ Answered(healthReq)
  /\ IF healthReq.status = "ok"
     THEN /\ agentStatus' = "connected"
          /\ healthReq' = Done
          /\ UNCHANGED error
     ELSE /\ agentStatus' = "disconnected"
          /\ healthReq' = Pending
          /\ error' = Some(StrUnableToConnect)
  /\ UNCHANGED << opportunities, loading, isAgentRunning, lastAnalysisTime,
                  searchTerm, filterType, openVars, modalVars, chatVars,
                  stats, detailNet, loadReq, runs, runsStarted >>
  /\ UNCHANGED scriptVars

\* checkAgentHealth, from its await on
checkAgentHealth ==
  /\ Answered(healthReq)
  /\ IF healthReq.status = "ok"
     THEN /\ agentStatus' = "connected"
          /\ UNCHANGED error
     ELSE /\ agentStatus' = "disconnected"
          /\ error' = Some(StrUnableToConnect)
  /\ healthReq' = Done
  /\ UNCHANGED << opportunities, loading, isAgentRunning, lastAnalysisTime,
                  searchTerm, filterType, openVars, modalVars, chatVars,
                  stats, detailNet, loadReq, runs, runsStarted >>
  /\ UNCHANGED scriptVars

\* the backend answers the page-load GET /opportunities
BackendOpportunities ==
  /\ loadReq.status = "pending"
  /\ loadReq' \in {Ok(b) : b \in ListBodies} \cup Failures
  /\ UNCHANGED << pageVars, openVars, modalVars, chatVars, stats, detailNet,
                  healthReq, runs, runsStarted >>
  /\ UNCHANGED scriptVars

\* loadExistingOpportunities, from its await on; the catch only logs
loadExistingOpportunities ==
  /\ Answered(loadReq)
  /\ IF loadReq.status = "ok"
     THEN opportunities' = ResponseData(loadReq.data)
     ELSE UNCHANGED opportunities
  /\ loadReq' = Done
  /\ UNCHANGED << loading, error, isAgentRunning, agentStatus,
                  lastAnalysisTime, searchTerm, filterType, openVars,
                  modalVars, chatVars, stats, detailNet, healthReq, runs,
                  runsStarted >>
  /\ UNCHANGED scriptVars

\* a search that forgets to lower-case the typed term
MatchesSearchCaseSensitive(opp) ==
  \/ searchTerm = << >>
  \/ Includes(ToLowerCase(opp.ticker), searchTerm)
  \/ Includes(ToLowerCase(opp.setup_type), searchTerm)

\* one row passes the search box and the category filter
MatchesSearch(opp) ==
  \/ searchTerm = << >>
  \/ Includes(ToLowerCase(opp.ticker), ToLowerCase(searchTerm))
  \/ Includes(ToLowerCase(opp.setup_type), ToLowerCase(searchTerm))

\* a category filter whose 'all' option passes nothing
MatchesFilterWithoutAll(opp) ==
  \/ /\ filterType = "bullish"
     /\ \/ Includes(ToLowerCase(opp.setup_type), StrBullish)
        \/ Includes(ToLowerCase(opp.setup_type), StrMomentum)
  \/ /\ filterType = "bearish"
     /\ \/ Includes(ToLowerCase(opp.setup_type), StrShort)
        \/ Includes(ToLowerCase(opp.setup_type), StrBear)
  \/ /\ filterType = "high-confidence"
     /\ opp.confidence_score >= 70

\* a category filter whose high-confidence cutoff is strict
MatchesFilterStrictCutoff(opp) ==
  \/ filterType = "all"
  \/ /\ filterType = "bullish"
     /\ \/ Includes(ToLowerCase(opp.setup_type), StrBullish)
        \/ Includes(ToLowerCase(opp.setup_type), StrMomentum)
  \/ /\ filterType = "bearish"
     /\ \/ Includes(ToLowerCase(opp.setup_type), StrShort)
        \/ Includes(ToLowerCase(opp.setup_type), StrBear)
  \/ /\ filterType = "high-confidence"
     /\ opp.confidence_score > 70

MatchesFilter(opp) ==
  \/ filterType = "all"
  \/ /\ filterType = "bullish"
     /\ \/ Includes(ToLowerCase(opp.setup_type), StrBullish)
        \/ Includes(ToLowerCase(opp.setup_type), StrMomentum)
  \/ /\ filterType = "bearish"
     /\ \/ Includes(ToLowerCase(opp.setup_type), StrShort)
        \/ Includes(ToLowerCase(opp.setup_type), StrBear)
  \/ /\ filterType = "high-confidence"
     /\ opp.confidence_score >= 70

\* a view that is re-sorted by descending confidence
filteredOpportunitiesSorted ==
  SortSeq(SelectSeq(opportunities,
                    LAMBDA opp : MatchesSearch(opp) /\ MatchesFilter(opp)),
          LAMBDA a, b : a.confidence_score > b.confidence_score)

filteredOpportunities ==
  SelectSeq(opportunities, LAMBDA opp : MatchesSearch(opp) /\ MatchesFilter(opp))

\* onChange of the search box
setSearchTerm(t) ==
  /\ Mounted
  /\ searchTerm' = t
  /\ UNCHANGED << opportunities, loading, error, isAgentRunning, agentStatus,
                  lastAnalysisTime, filterType, openVars, modalVars,
                  chatVars, stats, detailNet, pageNet >>
  /\ UNCHANGED scriptVars

\* onChange of the filter select
setFilterType(f) ==
  /\ Mounted
  /\ filterType' = f
  /\ UNCHANGED << opportunities, loading, error, isAgentRunning, agentStatus,
                  lastAnalysisTime, searchTerm, openVars, modalVars,
                  chatVars, stats, detailNet, pageNet >>
  /\ UNCHANGED scriptVars

\* a button without a disabled attribute
NeverDisabled == FALSE

\* disabled attribute of the header "Run Analysis" button
HeaderButtonDisabled == loading \/ isAgentRunning

\* the empty-state "Run Analysis" button is in the DOM
EmptyStateButtonRendered ==
  /\ Len(filteredOpportunities) = 0
  /\ searchTerm = << >>
  /\ filterType = "all"

\* disabled attribute of the empty-state "Run Analysis" button
EmptyStateButtonDisabled == loading

\* a run that does not clear the error of the previous run when it starts
runTechnicalAnalysisKeepingError ==
  /\ loading' = TRUE
  /\ isAgentRunning' = TRUE
  /\ runs' = Append(runs, [stage |-> "research", req |-> Pending])
  /\ runsStarted' = runsStarted + 1
  /\ UNCHANGED << opportunities, error, agentStatus, lastAnalysisTime,
                  searchTerm, filterType, openVars, modalVars, chatVars,
                  stats, detailNet, healthReq, loadReq >>

\* runTechnicalAnalysis up to its first await: POST /research is issued
runTechnicalAnalysis ==
  /\ loading' = TRUE
  /\ error' = Null
  /\ isAgentRunning' = TRUE
  /\ runs' = Append(runs, [stage |-> "research", req |-> Pending])
  /\ runsStarted' = runsStarted + 1
  /\ UNCHANGED << opportunities, agentStatus, lastAnalysisTime, searchTerm,
                  filterType, openVars, modalVars, chatVars, stats,
                  detailNet, healthReq, loadReq >>

\* a click on the header button
clickRunAnalysis ==
  /\ Mounted
  /\ runsStarted < MaxRuns
  /\ ~HeaderButtonDisabled
  /\ runTechnicalAnalysis
  /\ UNCHANGED scriptVars

\* a click on the empty-state button
clickRunAnalysisEmptyState ==
  /\ Mounted
  /\ runsStarted < MaxRuns
  /\ EmptyStateButtonRendered
  /\ ~EmptyStateButtonDisabled
  /\ runTechnicalAnalysis
  /\ UNCHANGED scriptVars

\* the backend answers the POST /research of run i
BackendResearch(i) ==
  /\ runs[i].stage = "research"
  /\ runs[i].req.status = "pending"
  /\ \E r \in {Ok(b) : b \in ResearchBodies} \cup Failures :
       runs' = [runs EXCEPT ![i].req = r]
  /\ UNCHANGED << pageVars, openVars, modalVars, chatVars, stats, detailNet,
                  healthReq, loadReq, runsStarted >>
  /\ UNCHANGED scriptVars

\* the backend answers the GET /opportunities of run i
BackendRunOpportunities(i) ==
  /\ runs[i].stage = "opportunities"
  /\ runs[i].req.status = "pending"
  /\ \E r \in {Ok(b) : b \in ListBodies} \cup Failures :
       runs' = [runs EXCEPT ![i].req = r]
  /\ UNCHANGED << pageVars, openVars, modalVars, chatVars, stats, detailNet,
                  healthReq, loadReq, runsStarted >>
  /\ UNCHANGED scriptVars

\* a catch that stamps the analysis time although the run failed
runCatchFinallyStamping(i) ==
  /\ error' = Some(StrFailedToFetch \o runs[i].req.message)
  /\ loading' = FALSE
  /\ isAgentRunning' = FALSE
  /\ runs' = RemoveAt(runs, i)
  /\ lastAnalysisTime' = Some(runsStarted)
  /\ UNCHANGED opportunities

\* a run without the finally block: a failed run leaves the flags set
runCatchWithoutFinally(i) ==
  /\ error' = Some(StrFailedToFetch \o runs[i].req.message)
  /\ runs' = RemoveAt(runs, i)
  /\ UNCHANGED << loading, isAgentRunning, opportunities, lastAnalysisTime >>

\* catch and finally of runTechnicalAnalysis, for the rejected request of run i
runCatchFinally(i) ==
  /\ error' = Some(StrFailedToFetch \o runs[i].req.message)
  /\ loading' = FALSE
  /\ isAgentRunning' = FALSE
  /\ runs' = RemoveAt(runs, i)
  /\ UNCHANGED << opportunities, lastAnalysisTime >>

\* a runTechnicalAnalysis that shows the rows of the POST /research response
\* while it fetches the list
runAfterResearchShowingTrigger(i) ==
  /\ runs[i].stage = "research"
  /\ Answered(runs[i].req)
  /\ IF runs[i].req.status = "ok"
     THEN /\ runs' = [runs EXCEPT ![i] = [stage |-> "opportunities",
                                          req |-> Pending]]
          /\ opportunities' = ResponseData(runs[i].req.data)
          /\ UNCHANGED << loading, error, isAgentRunning, lastAnalysisTime >>
     ELSE runCatchFinally(i)
  /\ UNCHANGED << agentStatus, searchTerm, filterType, openVars, modalVars,
                  chatVars, stats, detailNet, healthReq, loadReq,
                  runsStarted >>
  /\ UNCHANGED scriptVars

\* runTechnicalAnalysis of run i, from the await of POST /research on:
\* GET /opportunities is issued, or the rejection is caught
runAfterResearch(i) ==
  /\ runs[i].stage = "research"
  /\ Answered(runs[i].req)
  /\ IF runs[i].req.status = "ok"
     THEN /\ runs' = [runs EXCEPT ![i] = [stage |-> "opportunities",
                                          req |-> Pending]]
          /\ UNCHANGED << opportunities, loading, error, isAgentRunning,
                          lastAnalysisTime >>
     ELSE runCatchFinally(i)
  /\ UNCHANGED << agentStatus, searchTerm, filterType, openVars, modalVars,
                  chatVars, stats, detailNet, healthReq, loadReq,
                  runsStarted >>
  /\ UNCHANGED scriptVars

\* runTechnicalAnalysis of run i, from the await of GET /opportunities on.
\* new Date().toLocaleTimeString() is read off a clock that the number of
\* runs started so far stands for.
runAfterOpportunities(i) ==
  /\ runs[i].stage = "opportunities"
  /\ Answered(runs[i].req)
  /\ IF runs[i].req.status = "ok"
     THEN /\ opportunities' = ResponseData(runs[i].req.data)
          /\ lastAnalysisTime' = Some(runsStarted)
          /\ loading' = FALSE
          /\ isAgentRunning' = FALSE
          /\ runs' = RemoveAt(runs, i)
          /\ UNCHANGED error
     ELSE runCatchFinally(i)
  /\ UNCHANGED << agentStatus, searchTerm, filterType, openVars, modalVars,
                  chatVars, stats, detailNet, healthReq, loadReq,
                  runsStarted >>
  /\ UNCHANGED scriptVars

NextPage ==
  \/ useEffectMount
  \/ BackendHealth
  \/ checkAgentHealth
  \/ BackendOpportunities
  \/ loadExistingOpportunities
  \/ \E t \in SearchTerms : setSearchTerm(t)
  \/ \E f \in FilterTypes : setFilterType(f)
  \/ clickRunAnalysis
  \/ clickRunAnalysisEmptyState
  \/ \E i \in DOMAIN runs : BackendResearch(i)
  \/ \E i \in DOMAIN runs : runAfterResearch(i)
  \/ \E i \in DOMAIN runs : BackendRunOpportunities(i)
  \/ \E i \in DOMAIN runs : runAfterOpportunities(i)

SpecPage == Init /\ [][NextPage]_vars

(***************************************************************************)
(* Detail overlay: openModal / closeModal of the page and the              *)
(* OpportunityDetailModal, which the page keeps mounted.                   *)
(***************************************************************************)
\* the row with the given id
OppOfId(k) == CHOOSE o \in Rows \cup {Opp5} : o.id = k

\* body of GET /opportunities/{id}/details: it echoes the row asked for
DetailPayload(k) == [opportunity |-> OppOfId(k)]

\* fetchOpportunityDetails up to its await: the request is keyed by the id
\* of the opportunity prop of the render that ran the effect
\* a fetch that collapses the sections when it starts
fetchOpportunityDetailsCollapsing(opportunity) ==
  /\ modalLoading' = TRUE
  /\ modalError' = Null
  /\ detailReqs' = Append(detailReqs, [key |-> opportunity.id, req |-> Pending])
  /\ detailsIssued' = detailsIssued + 1
  /\ expandedSections' = [s \in Sections |-> FALSE]
  /\ UNCHANGED details

fetchOpportunityDetails(opportunity) ==
  /\ modalLoading' = TRUE
  /\ modalError' = Null
  /\ detailReqs' = Append(detailReqs, [key |-> opportunity.id, req |-> Pending])
  /\ detailsIssued' = detailsIssued + 1
  /\ UNCHANGED << details, expandedSections >>

\* an effect that keeps the details it holds when they are those of the
\* opportunity being opened (a detail cache)
useEffectCached(isOpen, opportunity) ==
  IF /\ << isOpen, opportunity >> # << isModalOpen, selectedOpportunity >>
     /\ isOpen
     /\ opportunity # Null
     /\ ~(/\ details # Null
          /\ Get(details).opportunity.id = Get(opportunity).id)
  THEN fetchOpportunityDetails(Get(opportunity))
  ELSE UNCHANGED << modalVars, detailNet >>

\* useEffect(..., [isOpen, opportunity]) of the modal, run after a render
\* with the props isOpen and opportunity: it does something only when a
\* prop has changed
useEffectOpen(isOpen, opportunity) ==
  IF /\ << isOpen, opportunity >> # << isModalOpen, selectedOpportunity >>
     /\ isOpen
     /\ opportunity # Null
  THEN fetchOpportunityDetails(Get(opportunity))
  ELSE UNCHANGED << modalVars, detailNet >>

\* a click on the View button of a row of the table, and the effect of the
\* modal that the re-render runs.  The open overlay and its backdrop cover
\* the whole page (fixed inset-0), so a row is clicked with the overlay
\* closed.
openModal(opportunity) ==
  /\ Mounted
  /\ ~isModalOpen
  /\ detailsIssued < MaxOpens
  /\ \E k \in DOMAIN filteredOpportunities :
       filteredOpportunities[k] = opportunity
  /\ selectedOpportunity' = Some(opportunity)
  /\ isModalOpen' = TRUE
  /\ useEffectOpen(TRUE, Some(opportunity))
  /\ UNCHANGED << pageVars, chatVars, stats, pageNet >>
  /\ UNCHANGED scriptVars

\* a click on the close button or the backdrop, and the effect of the modal
closeModal ==
  /\ isModalOpen
  /\ isModalOpen' = FALSE
  /\ selectedOpportunity' = Null
  /\ useEffectOpen(FALSE, Null)
  /\ UNCHANGED << pageVars, chatVars, stats, pageNet >>
  /\ UNCHANGED scriptVars

\* the backend answers the detail request i
BackendDetails(i) ==
  /\ detailReqs[i].req.status = "pending"
  /\ \E r \in {Ok(Some(DetailPayload(detailReqs[i].key)))} \cup Failures :
       detailReqs' = [detailReqs EXCEPT ![i].req = r]
  /\ UNCHANGED << pageVars, openVars, modalVars, chatVars, stats,
                  detailsIssued, pageNet >>
  /\ UNCHANGED scriptVars

\* a fetchOpportunityDetails whose catch writes the error of the page
fetchAfterDetailsPageError(i) ==
  /\ Answered(detailReqs[i].req)
  /\ IF detailReqs[i].req.status = "ok"
     THEN /\ details' = detailReqs[i].req.data
          /\ UNCHANGED error
     ELSE /\ error' =
               Some(StrFailedToLoadDetails \o detailReqs[i].req.message)
          /\ UNCHANGED details
  /\ modalLoading' = FALSE
  /\ detailReqs' = RemoveAt(detailReqs, i)
  /\ UNCHANGED << opportunities, loading, isAgentRunning, agentStatus,
                  lastAnalysisTime, searchTerm, filterType, openVars,
                  modalError, expandedSections, chatVars, stats,
                  detailsIssued, pageNet >>
  /\ UNCHANGED scriptVars

\* fetchOpportunityDetails of request i, from its await on
fetchAfterDetails(i) ==
  /\ Answered(detailReqs[i].req)
  /\ IF detailReqs[i].req.status = "ok"
     THEN /\ details' = detailReqs[i].req.data
          /\ UNCHANGED modalError
     ELSE /\ modalError' =
               Some(StrFailedToLoadDetails \o detailReqs[i].req.message)
          /\ UNCHANGED details
  /\ modalLoading' = FALSE
  /\ detailReqs' = RemoveAt(detailReqs, i)
  /\ UNCHANGED << pageVars, openVars, expandedSections, chatVars, stats,
                  detailsIssued, pageNet >>
  /\ UNCHANGED scriptVars

\* what the overlay renders
ShowsLoading == isModalOpen /\ modalLoading
ShowsError == isModalOpen /\ ~modalLoading /\ modalError # Null
ShowsDetails ==
  isModalOpen /\ ~modalLoading /\ modalError = Null /\ details # Null

\* a click on the header of a section, which is rendered with the details
toggleSection(section) ==
  /\ ShowsDetails
  /\ expandedSections' =
       [expandedSections EXCEPT ![section] = ~expandedSections[section]]
  /\ UNCHANGED << pageVars, openVars, details, modalLoading, modalError,
                  chatVars, stats, detailNet, pageNet >>
  /\ UNCHANGED scriptVars

NextModal ==
  \/ useEffectMount
  \/ BackendHealth
  \/ checkAgentHealth
  \/ BackendOpportunities
  \/ loadExistingOpportunities
  \/ \E o \in {Opp1, Opp2, Opp3} : openModal(o)
  \/ closeModal
  \/ \E i \in DOMAIN detailReqs : BackendDetails(i)
  \/ \E i \in DOMAIN detailReqs : fetchAfterDetails(i)
  \/ \E s \in Sections : toggleSection(s)

SpecModal == Init /\ [][NextModal]_vars

(***************************************************************************)
(* App: the chat panel of the dashboard, on the mounted component.  Its    *)
(* loadExistingOpportunities is line for line that of the Opportunities    *)
(* page; its checkAgentHealth keeps no agentStatus.                        *)
(***************************************************************************)
\* values typed into the chat box
ChatInputs == {<< >>, << " " >>, StrHi}

\* response.data.response of POST /chat
ChatReplies == {StrReply}

\* checkAgentHealth of App, from its await on
appCheckAgentHealth ==
  /\ Answered(healthReq)
  /\ IF healthReq.status = "ok"
     THEN UNCHANGED error
     ELSE error' = Some(StrUnableToConnect)
  /\ healthReq' = Done
  /\ UNCHANGED << opportunities, loading, isAgentRunning, agentStatus,
                  lastAnalysisTime, searchTerm, filterType, openVars,
                  modalVars, chatVars, stats, detailNet, loadReq, runs,
                  runsStarted >>
  /\ UNCHANGED scriptVars

\* onChange of the chat box
setChatInput(v) ==
  /\ Mounted
  /\ chatInput' = v
  /\ UNCHANGED << pageVars, openVars, modalVars, chatMessages, chatReqs,
                  chatsSent, stats, detailNet, pageNet >>
  /\ UNCHANGED scriptVars

\* a sendChatMessage whose guard tests the untrimmed input
sendChatMessageUntrimmed ==
  /\ Mounted
  /\ IF chatInput = << >>
     THEN UNCHANGED chatVars
     ELSE /\ chatsSent < MaxChats
          /\ chatMessages' =
               Append(chatMessages, [role |-> "user", content |-> chatInput])
          /\ chatInput' = << >>
          /\ chatReqs' = Append(chatReqs, [message |-> chatInput,
                                           req |-> Pending])
          /\ chatsSent' = chatsSent + 1
  /\ UNCHANGED << pageVars, openVars, modalVars, stats, detailNet, pageNet >>
  /\ UNCHANGED scriptVars

\* sendChatMessage up to its await (Enter in the chat box, or a click on
\* the send button)
sendChatMessage ==
  /\ Mounted
  /\ IF Trim(chatInput) = << >>
     THEN UNCHANGED chatVars
     ELSE /\ chatsSent < MaxChats
          /\ chatMessages' =
               Append(chatMessages, [role |-> "user", content |-> chatInput])
          /\ chatInput' = << >>
          /\ chatReqs' = Append(chatReqs, [message |-> chatInput,
                                           req |-> Pending])
          /\ chatsSent' = chatsSent + 1
  /\ UNCHANGED << pageVars, openVars, modalVars, stats, detailNet, pageNet >>
  /\ UNCHANGED scriptVars

\* the backend answers the POST /chat of request i
BackendChat(i) ==
  /\ chatReqs[i].req.status = "pending"
  /\ \E r \in {Ok(Some(c)) : c \in ChatReplies} \cup Failures :
       chatReqs' = [chatReqs EXCEPT ![i].req = r]
  /\ UNCHANGED << pageVars, openVars, modalVars, chatMessages, chatInput,
                  chatsSent, stats, detailNet, pageNet >>
  /\ UNCHANGED scriptVars

\* sendChatMessage of request i, from its await on
sendAfterChat(i) ==
  /\ Answered(chatReqs[i].req)
  /\ IF chatReqs[i].req.status = "ok"
     THEN chatMessages' =
            Append(chatMessages, [role |-> "assistant",
                                  content |-> Get(chatReqs[i].req.data)])
     ELSE chatMessages' =
            Append(chatMessages, [role |-> "assistant",
                                  content |-> StrSorry \o chatReqs[i].req.message])
  /\ chatReqs' = RemoveAt(chatReqs, i)
  /\ UNCHANGED << pageVars, openVars, modalVars, chatInput, chatsSent, stats,
                  detailNet, pageNet >>
  /\ UNCHANGED scriptVars

NextApp ==
  \/ useEffectMount
  \/ BackendHealth
  \/ appCheckAgentHealth
  \/ BackendOpportunities
  \/ loadExistingOpportunities
  \/ \E v \in ChatInputs : setChatInput(v)
  \/ sendChatMessage
  \/ \E i \in DOMAIN chatReqs : BackendChat(i)
  \/ \E i \in DOMAIN chatReqs : sendAfterChat(i)

SpecApp == Init /\ [][NextApp]_vars

(***************************************************************************)
(* Home dashboard                                                          *)
(***************************************************************************)
\* bodies of GET /opportunities seen by the Home dashboard
HomeListBodies == {Null} \cup {Some(l) : l \in ListsUpTo(MaxRows)}

\* stats whose categories exclude each other: a bullish row is never
\* counted as bearish
DashboardStatsExclusive(opps) ==
  [totalOpportunities |-> Len(opps),
   highConfidence |-> Len(SelectSeq(opps, LAMBDA opp : opp.confidence_score > 70)),
   bullishSetups |->
     Len(SelectSeq(opps, LAMBDA opp :
       \/ Includes(ToLowerCase(opp.setup_type), StrBullish)
       \/ Includes(ToLowerCase(opp.setup_type), StrMomentum))),
   bearishSetups |->
     Len(SelectSeq(opps, LAMBDA opp :
       /\ ~(\/ Includes(ToLowerCase(opp.setup_type), StrBullish)
            \/ Includes(ToLowerCase(opp.setup_type), StrMomentum))
       /\ \/ Includes(ToLowerCase(opp.setup_type), StrShort)
          \/ Includes(ToLowerCase(opp.setup_type), StrBear)))]

\* stats whose bullish keywords drifted from the filter's: 'momentum' is
\* not a bullish keyword here
DashboardStatsWithoutMomentum(opps) ==
  [totalOpportunities |-> Len(opps),
   highConfidence |-> Len(SelectSeq(opps, LAMBDA opp : opp.confidence_score > 70)),
   bullishSetups |->
     Len(SelectSeq(opps, LAMBDA opp :
       Includes(ToLowerCase(opp.setup_type), StrBullish))),
   bearishSetups |->
     Len(SelectSeq(opps, LAMBDA opp :
       \/ Includes(ToLowerCase(opp.setup_type), StrShort)
       \/ Includes(ToLowerCase(opp.setup_type), StrBear)))]

\* the stats object that loadDashboardData computes from the list
DashboardStats(opps) ==
  [totalOpportunities |-> Len(opps),
   highConfidence |-> Len(SelectSeq(opps, LAMBDA opp : opp.confidence_score > 70)),
   bullishSetups |->
     Len(SelectSeq(opps, LAMBDA opp :
       \/ Includes(ToLowerCase(opp.setup_type), StrBullish)
       \/ Includes(ToLowerCase(opp.setup_type), StrMomentum))),
   bearishSetups |->
     Len(SelectSeq(opps, LAMBDA opp :
       \/ Includes(ToLowerCase(opp.setup_type), StrShort)
       \/ Includes(ToLowerCase(opp.setup_type), StrBear)))]

\* useEffect(..., []) of Home: loadDashboardData up to its first await
loadDashboardData ==
  /\ ~Mounted
  /\ healthReq' = Pending
  /\ UNCHANGED << pageVars, openVars, modalVars, chatVars, stats, detailNet,
                  loadReq, runs, runsStarted >>
  /\ UNCHANGED scriptVars

\* loadDashboardData from the await of GET /health on: GET /opportunities
\* is issued, or the rejection is caught
dashboardAfterHealth ==
  /\ Answered(healthReq)
  /\ IF healthReq.status = "ok"
     THEN /\ agentStatus' = "connected"
          /\ loadReq' = Pending
     ELSE /\ agentStatus' = "disconnected"
          /\ UNCHANGED loadReq
  /\ healthReq' = Done
  /\ UNCHANGED << opportunities, loading, error, isAgentRunning,
                  lastAnalysisTime, searchTerm, filterType, openVars,
                  modalVars, chatVars, stats, detailNet, runs, runsStarted >>
  /\ UNCHANGED scriptVars

\* the backend answers the GET /opportunities of the Home dashboard
BackendDashboardOpportunities ==
  /\ loadReq.status = "pending"
  /\ loadReq' \in {Ok(b) : b \in HomeListBodies} \cup Failures
  /\ UNCHANGED << pageVars, openVars, modalVars, chatVars, stats, detailNet,
                  healthReq, runs, runsStarted >>
  /\ UNCHANGED scriptVars

\* a dashboard load that replaces the list and forgets setStats
dashboardAfterOpportunitiesStaleStats ==
  /\ Answered(loadReq)
  /\ IF loadReq.status = "ok"
     THEN /\ opportunities' = ResponseData(loadReq.data)
          /\ UNCHANGED << agentStatus, stats >>
     ELSE /\ agentStatus' = "disconnected"
          /\ UNCHANGED << opportunities, stats >>
  /\ loadReq' = Done
  /\ UNCHANGED << loading, error, isAgentRunning, lastAnalysisTime,
                  searchTerm, filterType, openVars, modalVars, chatVars,
                  detailNet, healthReq, runs, runsStarted >>
  /\ UNCHANGED scriptVars

\* loadDashboardData from the await of GET /opportunities on
dashboardAfterOpportunities ==
  /\ Answered(loadReq)
  /\ IF loadReq.status = "ok"
     THEN /\ opportunities' = ResponseData(loadReq.data)
          /\ stats' = DashboardStats(ResponseData(loadReq.data))
          /\ UNCHANGED agentStatus
     ELSE /\ agentStatus' = "disconnected"
          /\ UNCHANGED << opportunities, stats >>
  /\ loadReq' = Done
  /\ UNCHANGED << loading, error, isAgentRunning, lastAnalysisTime,
                  searchTerm, filterType, openVars, modalVars, chatVars,
                  detailNet, healthReq, runs, runsStarted >>
  /\ UNCHANGED scriptVars

NextHome ==
  \/ loadDashboardData
  \/ BackendHealth
  \/ dashboardAfterHealth
  \/ BackendDashboardOpportunities
  \/ dashboardAfterOpportunities

SpecHome == Init /\ [][NextHome]_vars

(***************************************************************************)
(* The list filter over every list the backend can return                  *)
(***************************************************************************)
\* values typed into the search box: empty, lower case, upper case, a
\* setup_type word
FilterSearchTerms == SearchTerms \cup {StrTSLA, StrMomentum}

\* the Opportunities page loads any list of persisted rows and the user
\* types in the search box and picks a category
NextFilter ==
  \/ useEffectMount
  \/ BackendHealth
  \/ checkAgentHealth
  \/ BackendDashboardOpportunities
  \/ loadExistingOpportunities
  \/ \E t \in FilterSearchTerms : setSearchTerm(t)
  \/ \E f \in FilterTypes : setFilterType(f)

SpecFilter == Init /\ [][NextFilter]_vars

(***************************************************************************)
(* Figures derived from the list: badge colour, App stats, Home percent    *)
(***************************************************************************)
\* getSetupTypeColor: the first matching branch returns
getSetupTypeColor(setupType) ==
  IF \/ Includes(ToLowerCase(setupType), StrBullish)
     \/ Includes(ToLowerCase(setupType), StrMomentum)
  THEN "text-green-400 bg-green-500/20"
  ELSE IF \/ Includes(ToLowerCase(setupType), StrShort)
          \/ Includes(ToLowerCase(setupType), StrBear)
       THEN "text-red-400 bg-red-500/20"
       ELSE "text-blue-400 bg-blue-500/20"

\* Math.round(n / d) for n >= 0 and d > 0: halves round up
MathRound(n, d) == (2 * n + d) \div (2 * d)

\* Math.ceil(n / d) for n >= 0 and d > 0
MathCeil(n, d) == (n + d - 1) \div d

\* opportunities.reduce((sum, opp) => sum + (opp.confidence_score * 100), 0)
RECURSIVE SumConfidence(_)
SumConfidence(opps) ==
  IF opps = << >> THEN 0
  ELSE Head(opps).confidence_score + SumConfidence(Tail(opps))

\* opportunities.reduce((sum, opp) => sum + (parseFloat(opp.price) || 0), 0)
RECURSIVE SumPrice(_)
SumPrice(opps) ==
  IF opps = << >> THEN 0 ELSE Head(opps).price + SumPrice(Tail(opps))

\* an average that rounds up instead of to the nearest integer
AppAvgConfidenceCeil(opps) ==
  IF Len(opps) > 0 THEN MathCeil(SumConfidence(opps), Len(opps)) ELSE 0

\* stats.avgConfidence of App
AppAvgConfidence(opps) ==
  IF Len(opps) > 0 THEN MathRound(SumConfidence(opps), Len(opps)) ELSE 0

\* the stats object App computes on every render
AppStats(opps) ==
  [totalOpportunities |-> Len(opps),
   avgConfidence |-> AppAvgConfidence(opps),
   highConfidence |->
     Len(SelectSeq(opps, LAMBDA opp : opp.confidence_score >= 70)),
   totalValue |-> SumPrice(opps)]

\* the "% of total" figure of the Home high-confidence card
HomeHighConfidencePercent ==
  IF stats.totalOpportunities > 0
  THEN MathRound(stats.highConfidence * 100, stats.totalOpportunities)
  ELSE 0

\* the Home dashboard loads any list of persisted rows; the page's search
\* box and category select are applied to the same rows
NextViews ==
  \/ loadDashboardData
  \/ BackendHealth
  \/ dashboardAfterHealth
  \/ BackendDashboardOpportunities
  \/ dashboardAfterOpportunities
  \/ \E t \in SearchTerms : setSearchTerm(t)
  \/ \E f \in FilterTypes : setFilterType(f)

SpecViews == Init /\ [][NextViews]_vars

(***************************************************************************)
(* The state each asynchronous operation sets after its await              *)
(***************************************************************************)
\* a request that was issued and whose continuation has not run yet
InFlight(r) == r.status \in {"pending", "ok", "fail"}

\* checkAgentHealth: setAgentStatus, setError
WritesOfCheckAgentHealth == {"agentStatus", "error"}

\* loadExistingOpportunities: setOpportunities
WritesOfLoadExistingOpportunities == {"opportunities"}

\* runTechnicalAnalysis: setOpportunities, setLastAnalysisTime, setError,
\* setLoading, setIsAgentRunning
WritesOfRunTechnicalAnalysis ==
  {"opportunities", "lastAnalysisTime", "error", "loading", "isAgentRunning"}

\* fetchOpportunityDetails: setDetails, setError, setLoading of the modal
WritesOfFetchOpportunityDetails == {"details", "modalError", "modalLoading"}

\* sendChatMessage: setChatMessages
WritesOfSendChatMessage == {"chatMessages"}

\* the operations that are suspended at an await, as << kind, index >>
PendingOperations ==
  (IF InFlight(healthReq) THEN {<< "health", 0 >>} ELSE {})
    \cup (IF InFlight(loadReq) THEN {<< "load", 0 >>} ELSE {})
    \cup {<< "run", i >> : i \in DOMAIN runs}
    \cup {<< "detail", i >> : i \in DOMAIN detailReqs}
    \cup {<< "chat", i >> : i \in DOMAIN chatReqs}

\* the state variables a suspended operation sets when it resumes
WritesOf(op) ==
  CASE op[1] = "health" -> WritesOfCheckAgentHealth
    [] op[1] = "load" -> WritesOfLoadExistingOpportunities
    [] op[1] = "run" -> WritesOfRunTechnicalAnalysis
    [] op[1] = "detail" -> WritesOfFetchOpportunityDetails
    [] op[1] = "chat" -> WritesOfSendChatMessage

(***************************************************************************)
(* The count line of the Opportunities page                                *)
(***************************************************************************)
\* {opportunities.length} opportunities found
OpportunitiesFoundCount == Len(opportunities)


(***************************************************************************)
(* The body of a section of the overlay                                    *)
(***************************************************************************)
\* {expandedSections.technical && (...)} inside the details branch
SectionContentRendered(section) == ShowsDetails /\ expandedSections[section]


(***************************************************************************)
(* The chart section of the overlay                                        *)
(***************************************************************************)
StrColon == << ":" >>

StrNasdaqPrefix == << "N", "A", "S", "D", "A", "Q", ":" >>

StrNasdaqAAPL == << "N", "A", "S", "D", "A", "Q", ":", "A", "A", "P", "L" >>

\* String.prototype.toUpperCase, one character
UpperOf(c) ==
  IF \E i \in DOMAIN Lower : Lower[i] = c
  THEN Upper[CHOOSE i \in DOMAIN Lower : Lower[i] = c]
  ELSE c

\* String.prototype.toUpperCase
ToUpperCase(s) == [i \in DOMAIN s |-> UpperOf(s[i])]

\* a symbol that gets the default exchange whether it names one or not
formatSymbolAlwaysPrefixing(ticker) ==
  IF ticker = << >> THEN StrNasdaqAAPL
  ELSE StrNasdaqPrefix \o ToUpperCase(ticker)

\* formatSymbolForTradingView; a missing ticker is the empty string
formatSymbolForTradingView(ticker) ==
  IF ticker = << >> THEN StrNasdaqAAPL
  ELSE IF Includes(ToUpperCase(ticker), StrColon)
       THEN ToUpperCase(ticker)
       ELSE StrNasdaqPrefix \o ToUpperCase(ticker)

\* opportunity?.ticker of the overlay's opportunity prop
OverlayTicker ==
  IF selectedOpportunity = Null THEN << >>
  ELSE Get(selectedOpportunity).ticker

\* symbol={formatSymbolForTradingView(opportunity?.ticker)}
ChartSymbol == formatSymbolForTradingView(OverlayTicker)

\* the chart section is expanded and the TradingView chart is rendered
ChartRendered == SectionContentRendered("chart")

\* bodies of GET /opportunities with one row: upper-case, qualified and
\* lower-case tickers, and an empty one
ChartListBodies == {Some(<< r >>) : r \in Rows \cup {Opp5}}

\* the backend answers the page-load GET /opportunities with one row
BackendChartOpportunities ==
  /\ loadReq.status = "pending"
  /\ loadReq' \in {Ok(b) : b \in ChartListBodies} \cup Failures
  /\ UNCHANGED << pageVars, openVars, modalVars, chatVars, stats, detailNet,
                  healthReq, runs, runsStarted >>
  /\ UNCHANGED scriptVars

\* the Opportunities page with the overlay opened on the row of the list
\* and its chart section toggled
NextChart ==
  \/ useEffectMount
  \/ BackendHealth
  \/ checkAgentHealth
  \/ BackendChartOpportunities
  \/ loadExistingOpportunities
  \/ \E o \in Rows \cup {Opp5} : openModal(o)
  \/ closeModal
  \/ \E i \in DOMAIN detailReqs : BackendDetails(i)
  \/ \E i \in DOMAIN detailReqs : fetchAfterDetails(i)
  \/ toggleSection("chart")

SpecChart == Init /\ [][NextChart]_vars


(***************************************************************************)
(* start-both.sh: wait_for_service and the closing status line.  A probe   *)
(* is one run of curl; it either succeeds or fails, and it returns.        *)
(***************************************************************************)
\* local max_attempts=30
max_attempts == 30

StrSystemReady == "Complete system is ready!"

StrSomeFailed == "Some services failed to start. Check the logs above."

\* a loop that stops one attempt short
LoopContinuesStrict == attempt < max_attempts

\* while [ $attempt -le $max_attempts ]
LoopContinues == attempt <= max_attempts

\* $? of wait_for_service, as the caller stores it; the next call of the
\* function starts with its local attempt=1
ReturnFrom(service, code) ==
  IF service = "backend"
  THEN /\ BACKEND_READY' = Some(code)
       /\ pc' = "frontend"
       /\ attempt' = 1
       /\ UNCHANGED FRONTEND_READY
  ELSE /\ FRONTEND_READY' = Some(code)
       /\ pc' = "status"
       /\ UNCHANGED << BACKEND_READY, attempt >>

\* the lines before the first wait: stop the old processes, start both
\* services in the background, call wait_for_service for the backend
startServices ==
  /\ pc = "start"
  /\ pc' = "backend"
  /\ attempt' = 1
  /\ UNCHANGED << BACKEND_READY, FRONTEND_READY, probes, statusLine >>
  /\ UNCHANGED webVars

\* one turn of the loop of wait_for_service: the test, the probe and either
\* the return or the increment; or the exit of the loop
wait_for_service(service) ==
  /\ pc = service
  /\ \/ /\ LoopContinues
        /\ \E curl \in BOOLEAN :
             IF curl
             THEN /\ probes' = [probes EXCEPT ![service].succeeded = @ + 1]
                  /\ ReturnFrom(service, 0)
             ELSE /\ probes' = [probes EXCEPT ![service].failed = @ + 1]
                  /\ attempt' = attempt + 1
                  /\ UNCHANGED << pc, BACKEND_READY, FRONTEND_READY >>
     \/ /\ ~LoopContinues
        /\ ReturnFrom(service, 1)
        /\ UNCHANGED probes
  /\ UNCHANGED statusLine
  /\ UNCHANGED webVars

\* the SYSTEM STATUS block and the closing if
statusReport ==
  /\ pc = "status"
  /\ statusLine' = IF BACKEND_READY = Some(0) /\ FRONTEND_READY = Some(0)
                   THEN StrSystemReady
                   ELSE StrSomeFailed
  /\ pc' = "done"
  /\ UNCHANGED << attempt, BACKEND_READY, FRONTEND_READY, probes >>
  /\ UNCHANGED webVars

NextScript ==
  \/ startServices
  \/ \E service \in Services : wait_for_service(service)
  \/ statusReport

\* the script runs to its end: every command it runs returns
SpecScript == Init /\ [][NextScript]_vars /\ WF_vars(NextScript)


(***************************************************************************)
(* Properties of the Opportunities page                                    *)
(***************************************************************************)
\* the page-load list read completes in this step
LoadCompletes == Answered(loadReq) /\ loadReq'.status = "done"

\* run i completes in this step (its finally block runs)
RunCompletes(i) == Answered(runs[i].req) /\ runs' = RemoveAt(runs, i)

\* a string mentions "opportunities"
MentionsOpportunities(s) == Includes(s, StrOpportunitiesWord)

\* C2: the store is replaced all-or-nothing.  The step in which a rejected
\* list read or a rejected run is handled leaves the store as it was; the
\* step in which a successful list read is handled makes the store exactly
\* the list of that response (empty for an empty body); no other step
\* writes the store.
StoreReplacedAllOrNothing ==
  [][/\ LoadCompletes =>
          opportunities' = (IF loadReq.status = "ok" /\ loadReq.data # Null
                            THEN Get(loadReq.data)
                            ELSE IF loadReq.status = "ok" THEN << >>
                            ELSE opportunities)
     /\ \A i \in DOMAIN runs :
          RunCompletes(i) =>
            opportunities' = (IF runs[i].req.status = "ok" /\ runs[i].req.data # Null
                              THEN Get(runs[i].req.data)
                              ELSE IF runs[i].req.status = "ok" THEN << >>
                              ELSE opportunities)
     /\ (~LoadCompletes /\ \A i \in DOMAIN runs : ~RunCompletes(i)) =>
          opportunities' = opportunities]_vars

\* C2 witness: a store loaded by one list read has survived a run whose
\* request was rejected
StoreSurvivedFailedRun ==
  /\ opportunities = << Opp3 >>
  /\ runs = << >>
  /\ runsStarted > 0
  /\ error = Some(StrFailedToFetch \o StrStatus500)

\* C3: at most one analysis run is in flight, and while one is in flight
\* both controls that start a run are disabled.
AtMostOneRunInFlight ==
  /\ Len(runs) <= 1
  /\ runs # << >> => (HeaderButtonDisabled /\ EmptyStateButtonDisabled)

\* C3 witness: a second run is in flight after the first one has finished
SecondRunInFlight ==
  /\ Len(runs) = 1
  /\ runsStarted = 2
  /\ runs[1].stage = "opportunities"

\* C4: within a run GET /opportunities is issued only after POST /research
\* has succeeded, the store is only ever assigned from a GET /opportunities
\* response, and so every row of every reachable store has an id.
ListReadFollowsTrigger ==
  /\ [](\A k \in DOMAIN opportunities : HasId(opportunities[k]))
  /\ [][/\ \A i \in DOMAIN runs' :
             runs'[i].stage = "opportunities" =>
               /\ i \in DOMAIN runs
               /\ \/ runs[i].stage = "opportunities"
                  \/ runs[i].req.status = "ok"
        /\ opportunities' # opportunities =>
             \/ /\ loadReq.status = "ok"
                /\ opportunities' = ResponseData(loadReq.data)
             \/ \E i \in DOMAIN runs :
                  /\ runs[i].stage = "opportunities"
                  /\ runs[i].req.status = "ok"
                  /\ opportunities' = ResponseData(runs[i].req.data)]_vars

\* C4 witness: a run has replaced the store after both of its requests
\* succeeded
RunReplacedStore ==
  /\ lastAnalysisTime # Null
  /\ opportunities = << Opp1, Opp2 >>
  /\ runs = << >>

\* C6: a rejected list read leaves the agent-connection status alone:
\* agentStatus is written only by the step that handles the answer to
\* GET /health, and according to that answer.
AgentStatusFollowsHealthOnly ==
  [][/\ (LoadCompletes /\ loadReq.status = "fail") =>
          agentStatus' = agentStatus
     /\ agentStatus' # agentStatus =>
          /\ Answered(healthReq)
          /\ agentStatus' = (IF healthReq.status = "ok" THEN "connected"
                                                        ELSE "disconnected")]_vars

\* C5: the step that handles a rejected list read, the page-load read as
\* well as the refresh inside a run, leaves an error message that mentions
\* "opportunities" in the page's error state.
ListReadFailureSetsError ==
  [][(\/ LoadCompletes /\ loadReq.status = "fail"
      \/ \E i \in DOMAIN runs :
           /\ RunCompletes(i)
           /\ runs[i].stage = "opportunities"
           /\ runs[i].req.status = "fail")
     => /\ error' # Null
        /\ MentionsOpportunities(Get(error'))]_vars

(***************************************************************************)
(* Properties of the detail overlay                                        *)
(***************************************************************************)
\* C1: while an opportunity is the open item the overlay never shows the
\* detail payload of another opportunity: it shows the loading state, an
\* error, or the payload of the open item, also when the response of an
\* earlier opening arrives late.
OverlayShowsOpenItemOnly ==
  (ShowsDetails /\ selectedOpportunity # Null) =>
    Get(details).opportunity.id = Get(selectedOpportunity).id

\* C7: closing the overlay resets the detail controller to idle.
CloseResetsController ==
  [][(isModalOpen /\ ~isModalOpen') =>
       (details' = Null /\ modalError' = Null /\ ~modalLoading')]_vars

\* the overlay is opened for an opportunity in this step
Opening ==
  /\ isModalOpen'
  /\ selectedOpportunity' # Null
  /\ ~isModalOpen \/ selectedOpportunity' # selectedOpportunity

DetailCompletes(i) ==
  Answered(detailReqs[i].req) /\ detailReqs' = RemoveAt(detailReqs, i)

\* C9: the step that handles the response of a detail fetch, a success or
\* a failure, changes nothing but details, loading and error of the
\* overlay: the store, the page's error, agentStatus, searchTerm and
\* filterType keep their values and no detail request is issued.
DetailFetchIsLocal ==
  [][(\E i \in DOMAIN detailReqs : DetailCompletes(i)) =>
       /\ UNCHANGED << opportunities, error, agentStatus, searchTerm,
                       filterType, loading, isAgentRunning, lastAnalysisTime,
                       openVars, expandedSections >>
       /\ detailsIssued' = detailsIssued]_vars

\* C9 witness: a detail fetch has failed over a loaded store
DetailFailedOverLoadedStore ==
  /\ ShowsError
  /\ opportunities = << Opp1, Opp2 >>
  /\ agentStatus = "connected"
  /\ error = Null
  /\ detailReqs = << >>

(***************************************************************************)
(* Properties of the chat panel                                            *)
(***************************************************************************)
IsPrefix(s, t) == Len(s) <= Len(t) /\ SubSeq(t, 1, Len(s)) = s

\* the POST /chat of request i completes in this step
ChatCompletes(i) ==
  Answered(chatReqs[i].req) /\ chatReqs' = RemoveAt(chatReqs, i)

\* C10: a send with non-blank input appends the user message and issues
\* one POST /chat; handling its answer appends exactly one assistant
\* message, the reply or a text containing the error message, and leaves
\* the page's error alone; the log only ever grows at its end; while the
\* input is blank no message is appended and no request is issued.
ChatAppendsOneReply ==
  /\ [](/\ Len(SelectSeq(chatMessages, LAMBDA m : m.role = "user")) = chatsSent
        /\ Len(SelectSeq(chatMessages, LAMBDA m : m.role = "assistant")) =
             chatsSent - Len(chatReqs)
        /\ \A i \in DOMAIN chatReqs : Trim(chatReqs[i].message) # << >>)
  /\ [][/\ IsPrefix(chatMessages, chatMessages')
        /\ \A i \in DOMAIN chatReqs :
             ChatCompletes(i) =>
               /\ Len(chatMessages') = Len(chatMessages) + 1
               /\ chatMessages'[Len(chatMessages')].role = "assistant"
               /\ IF chatReqs[i].req.status = "ok"
                  THEN chatMessages'[Len(chatMessages')].content =
                         Get(chatReqs[i].req.data)
                  ELSE Includes(chatMessages'[Len(chatMessages')].content,
                                chatReqs[i].req.message)
               /\ error' = error
        /\ chatsSent' # chatsSent =>
             /\ Trim(chatInput) # << >>
             /\ chatsSent' = chatsSent + 1
             /\ chatMessages' =
                  Append(chatMessages, [role |-> "user", content |-> chatInput])
             /\ chatReqs' =
                  Append(chatReqs, [message |-> chatInput, req |-> Pending])
        /\ Trim(chatInput) = << >> =>
             /\ chatsSent' = chatsSent
             /\ Len(chatReqs') <= Len(chatReqs)
             /\ Len(chatMessages') = Len(chatMessages) =>
                  chatMessages' = chatMessages]_vars

\* C10 witness: a rejected POST /chat has become an assistant message, the
\* page shows no error, and the chat box holds a blank input
ChatFailedInline ==
  /\ chatMessages =
       << [role |-> "user", content |-> StrHi],
          [role |-> "assistant", content |-> StrSorry \o StrNetworkError] >>
  /\ error = Null
  /\ healthReq.status = "done"
  /\ chatInput = << " " >>

(***************************************************************************)
(* Properties of the list filter                                           *)
(***************************************************************************)
\* two characters are the same letter, whatever their case
SameLetter(a, b) ==
  a = b \/ \E i \in DOMAIN Upper : {a, b} = {Upper[i], Lower[i]}

\* t occurs in s as a contiguous substring, ignoring case
OccursIgnoringCase(t, s) ==
  \E k \in 0..(Len(s) - Len(t)) :
    \A j \in 1..Len(t) : SameLetter(s[k + j], t[j])

\* the text match and the category match as the contract words them
TextMatch(opp, term) ==
  \/ term = << >>
  \/ OccursIgnoringCase(term, opp.ticker)
  \/ OccursIgnoringCase(term, opp.setup_type)

CategoryMatch(opp, type) ==
  CASE type = "all" -> TRUE
    [] type = "bullish" ->
         \/ OccursIgnoringCase(StrBullish, opp.setup_type)
         \/ OccursIgnoringCase(StrMomentum, opp.setup_type)
    [] type = "bearish" ->
         \/ OccursIgnoringCase(StrShort, opp.setup_type)
         \/ OccursIgnoringCase(StrBear, opp.setup_type)
    [] type = "high-confidence" -> opp.confidence_score >= 70
    [] OTHER -> FALSE

\* the k-th smallest element of a set of numbers
NthOf(S, k) == CHOOSE i \in S : Cardinality({j \in S : j < i}) = k - 1

\* opp is an entry of the list
IsEntryOf(opp, list) == \E i \in DOMAIN list : list[i] = opp

\* C11: the filtered view is exactly the store entries that pass both the
\* text match (empty term, or the term occurs ignoring case in ticker or
\* setup_type) and the category match (all; bullish: bullish or momentum;
\* bearish: short or bear; high-confidence: score of at least 0.7), in the
\* store's order.
FilteredViewIsBothMatches ==
  LET kept == {i \in DOMAIN opportunities :
                 /\ TextMatch(opportunities[i], searchTerm)
                 /\ CategoryMatch(opportunities[i], filterType)}
  IN  /\ Len(filteredOpportunities) = Cardinality(kept)
      /\ \A k \in DOMAIN filteredOpportunities :
           filteredOpportunities[k] = opportunities[NthOf(kept, k)]

\* C11 witness: an upper-case search for TSLA under the bearish category
\* keeps the Short Squeeze row only, out of a store of four rows
UpperCaseSearchKeptOneRow ==
  /\ loadReq.status = "done"
  /\ opportunities = << Opp1, Opp2, Opp3, Opp4 >>
  /\ searchTerm = StrTSLA
  /\ filterType = "bearish"
  /\ filteredOpportunities = << Opp2 >>

\* C12: with an empty search and the category 'all' the filtered view is
\* the store itself, same entries in the same order.
IdentityFilter ==
  (searchTerm = << >> /\ filterType = "all") =>
    filteredOpportunities = opportunities

\* C12 witness: the search box was cleared and the category set back to
\* 'all' over a loaded store whose rows are not in id order
IdentityOverLoadedStore ==
  /\ loadReq.status = "done"
  /\ opportunities = << Opp3, Opp1, Opp4, Opp2 >>
  /\ searchTerm = << >>
  /\ filterType = "all"
  /\ filteredOpportunities = << Opp3, Opp1, Opp4, Opp2 >>

\* C13 as stated: under 'high-confidence', whatever the search term, every
\* entry of the view has a score of at least 0.7 and every store entry
\* that is not in the view has a score below 0.7.
ExcludedAreLowConfidence ==
  filterType = "high-confidence" =>
    \A i \in DOMAIN opportunities :
      IF IsEntryOf(opportunities[i], filteredOpportunities)
      THEN opportunities[i].confidence_score >= 70
      ELSE opportunities[i].confidence_score < 70

\* C13 amended: under 'high-confidence' every entry of the view has a
\* score of at least 0.7, and every store entry that is not in the view
\* has a score below 0.7 or fails the text match.
ExcludedAreLowConfidenceOrUnmatched ==
  filterType = "high-confidence" =>
    \A i \in DOMAIN opportunities :
      IF IsEntryOf(opportunities[i], filteredOpportunities)
      THEN opportunities[i].confidence_score >= 70
      ELSE \/ opportunities[i].confidence_score < 70
           \/ ~TextMatch(opportunities[i], searchTerm)

\* C13 witness: under 'high-confidence' with the search "bear" the row at
\* exactly 0.70 is kept, and a row at 0.85 is left out by the search alone
HighConfidenceRowLeftOutBySearch ==
  /\ filterType = "high-confidence"
  /\ searchTerm = StrBear
  /\ IsEntryOf(Opp1, opportunities)
  /\ IsEntryOf(Opp2, opportunities)
  /\ filteredOpportunities = << Opp3 >>

\* C14: in every state, also right after a list read replaced the store,
\* the filtered view is a subsequence of the store: its entries are store
\* entries, each taken at most once, in the store's relative order.
FilteredViewIsSubsequence ==
  \E f \in [DOMAIN filteredOpportunities -> DOMAIN opportunities] :
    /\ \A j, k \in DOMAIN filteredOpportunities : j < k => f[j] < f[k]
    /\ \A j \in DOMAIN filteredOpportunities :
         filteredOpportunities[j] = opportunities[f[j]]

\* C14 witness: the category was picked before the list arrived, and the
\* list read has just put three rows in the store of which the view keeps
\* the first and the last, in that order
ViewOfFreshStoreKeepsOrder ==
  /\ loadReq.status = "done"
  /\ filterType = "bullish"
  /\ opportunities = << Opp3, Opp2, Opp1 >>
  /\ filteredOpportunities = << Opp3, Opp1 >>

(***************************************************************************)
(* Properties of the figures derived from the list                         *)
(***************************************************************************)
\* the setup_type holds a bullish keyword, a bearish keyword
HasBullishWord(opp) ==
  \/ OccursIgnoringCase(StrBullish, opp.setup_type)
  \/ OccursIgnoringCase(StrMomentum, opp.setup_type)

HasBearishWord(opp) ==
  \/ OccursIgnoringCase(StrShort, opp.setup_type)
  \/ OccursIgnoringCase(StrBear, opp.setup_type)

\* C15 as stated: a row with both a bullish and a bearish keyword matches
\* bullish only: it is in the 'bullish' view and not in the 'bearish'
\* view, and the dashboard counts it in bullishSetups and not in
\* bearishSetups.
BothKeywordsMatchBullishOnly ==
  /\ \A i \in DOMAIN opportunities :
       (HasBullishWord(opportunities[i]) /\ HasBearishWord(opportunities[i]))
         => /\ (filterType = "bullish" /\ TextMatch(opportunities[i], searchTerm))
                 => IsEntryOf(opportunities[i], filteredOpportunities)
            /\ filterType = "bearish"
                 => ~IsEntryOf(opportunities[i], filteredOpportunities)
  /\ stats.bullishSetups =
       Cardinality({i \in DOMAIN opportunities :
                      HasBullishWord(opportunities[i])})
  /\ stats.bearishSetups =
       Cardinality({i \in DOMAIN opportunities :
                      /\ HasBearishWord(opportunities[i])
                      /\ ~HasBullishWord(opportunities[i])})

\* C15 amended: a row with both a bullish and a bearish keyword matches
\* both categories: when it passes the text match it is in the 'bullish'
\* view and in the 'bearish' view, and the dashboard counts it in
\* bullishSetups and in bearishSetups; only its badge colour is the bullish
\* one.
BothKeywordsMatchBothCategories ==
  /\ \A i \in DOMAIN opportunities :
       (HasBullishWord(opportunities[i]) /\ HasBearishWord(opportunities[i]))
         => /\ (filterType \in {"bullish", "bearish"}
                  /\ TextMatch(opportunities[i], searchTerm))
                 => IsEntryOf(opportunities[i], filteredOpportunities)
            /\ getSetupTypeColor(opportunities[i].setup_type) =
                 "text-green-400 bg-green-500/20"
  /\ stats.bullishSetups =
       Cardinality({i \in DOMAIN opportunities :
                      HasBullishWord(opportunities[i])})
  /\ stats.bearishSetups =
       Cardinality({i \in DOMAIN opportunities :
                      HasBearishWord(opportunities[i])})

\* C15 witness: the dashboard loaded Short Squeeze and Bearish Momentum
\* rows; the 'bearish' view holds both and both are counted as bearish,
\* the second one as bullish too
BearishMomentumCountedTwice ==
  /\ loadReq.status = "done"
  /\ opportunities = << Opp2, Opp3 >>
  /\ filterType = "bearish"
  /\ searchTerm = << >>
  /\ filteredOpportunities = << Opp2, Opp3 >>
  /\ stats.bullishSetups = 1
  /\ stats.bearishSetups = 2

\* the sum of the scores (in hundredths) of the first n rows of a list
RECURSIVE ScoreOfFirst(_, _)
ScoreOfFirst(list, n) ==
  IF n = 0 THEN 0 ELSE ScoreOfFirst(list, n - 1) + list[n].confidence_score

\* C16: the average confidence of the stats is 0 over an empty store and
\* otherwise an integer nearest to the mean of confidence_score x 100 over
\* the store (never an undefined value); the Home "% of total" figure is 0
\* when totalOpportunities is 0.
AverageIsGuardedMean ==
  LET n == Len(opportunities)
      sum == ScoreOfFirst(opportunities, n)
      avg == AppStats(opportunities).avgConfidence
  IN  /\ avg \in 0..100
      /\ n = 0 => avg = 0
      /\ n > 0 => /\ 2 * (sum - avg * n) <= n
                  /\ 2 * (avg * n - sum) <= n
      /\ HomeHighConfidencePercent \in 0..100
      /\ stats.totalOpportunities = 0 => HomeHighConfidencePercent = 0

\* C16 witness: the list read answered with an empty body, so the store is
\* empty after a successful load and both figures are 0
AverageOverEmptyLoadedStore ==
  /\ loadReq.status = "done"
  /\ agentStatus = "connected"
  /\ opportunities = << >>
  /\ stats.totalOpportunities = 0
  /\ AppStats(opportunities).avgConfidence = 0
  /\ HomeHighConfidencePercent = 0

\* C17: the high-confidence count of the aggregate stats is the number of
\* store entries with a score of at least 0.70 (a row at exactly 0.70 is
\* counted), in the App stats and in the Home dashboard stats alike, and it
\* is the length of the 'high-confidence' view of the same store under an
\* empty search.
HighConfidenceCountIncludesCutoff ==
  LET atLeast == Cardinality({i \in DOMAIN opportunities :
                                opportunities[i].confidence_score >= 70})
  IN  /\ AppStats(opportunities).highConfidence = atLeast
      /\ stats.highConfidence = atLeast
      /\ (filterType = "high-confidence" /\ searchTerm = << >>)
           => /\ Len(filteredOpportunities) = atLeast
              /\ Len(filteredOpportunities) = stats.highConfidence

(***************************************************************************)
(* Properties of the concurrent operations                                 *)
(***************************************************************************)
\* C18: no state variable can be written by two operations that are in
\* flight at the same time: any two pending operations (health check,
\* page-load list read, analysis run, detail fetch, chat send) set
\* disjoint parts of the state.
PendingOperationsWriteDisjointState ==
  \A a, b \in PendingOperations :
    a # b => WritesOf(a) \cap WritesOf(b) = {}

\* C19: on the Opportunities page agentStatus is 'checking' until the
\* answer of the one GET /health is handled, is set then, once, to
\* 'connected' or 'disconnected' after the outcome, and never changes
\* again: the health check is issued once and never retried, and an
\* analysis run that ends, well or badly, leaves agentStatus alone.
AgentStatusSetOncePerLoad ==
  /\ [](IF healthReq.status = "done"
        THEN agentStatus \in {"connected", "disconnected"}
        ELSE agentStatus = "checking")
  /\ [][/\ agentStatus' # agentStatus =>
             /\ agentStatus = "checking"
             /\ Answered(healthReq)
             /\ healthReq'.status = "done"
             /\ agentStatus' = (IF healthReq.status = "ok"
                                THEN "connected" ELSE "disconnected")
        /\ healthReq'.status = "pending" =>
             healthReq.status \in {"none", "pending"}
        /\ healthReq.status = "done" => healthReq'.status = "done"
        /\ \A i \in DOMAIN runs :
             RunCompletes(i) => agentStatus' = agentStatus]_vars

\* C19 witness: the health check succeeded, then two analysis runs ended,
\* the last one failing, and the status still reads 'connected'
StatusConnectedAfterFailedRun ==
  /\ healthReq.status = "done"
  /\ agentStatus = "connected"
  /\ runsStarted = 2
  /\ runs = << >>
  /\ error = Some(StrFailedToFetch \o StrNetworkError)

(***************************************************************************)
(* Properties of the overlay's sections                                    *)
(***************************************************************************)
\* C20: whenever the overlay is opened for an opportunity, the four
\* sections (technical, rationale, chart, timeline) are all collapsed:
\* nothing expanded during an earlier opening is still expanded.
SectionsCollapsedAtOpen ==
  [][Opening => \A s \in Sections : ~expandedSections'[s]]_vars

(***************************************************************************)
(* Properties of the displayed figures                                     *)
(***************************************************************************)
\* the sum of the prices of the first n rows of a list
RECURSIVE PriceOfFirst(_, _)
PriceOfFirst(list, n) ==
  IF n = 0 THEN 0 ELSE PriceOfFirst(list, n - 1) + list[n].price

\* C21: the displayed aggregate figures are derived from the current
\* store, not from the filtered view nor from an earlier store: App's
\* total, average, high-confidence count and price sum are those of the
\* store, the page's count line is the store's length whatever the search
\* and the category, and Home's stats.totalOpportunities is the length of
\* Home's list.
StatsFollowCurrentStore ==
  LET n == Len(opportunities)
      app == AppStats(opportunities)
  IN  /\ stats.totalOpportunities = n
      /\ OpportunitiesFoundCount = n
      /\ app.totalOpportunities = n
      /\ app.highConfidence =
           Cardinality({i \in 1..n : opportunities[i].confidence_score >= 70})
      /\ app.totalValue = PriceOfFirst(opportunities, n)
      /\ 2 * (ScoreOfFirst(opportunities, n) - app.avgConfidence * n) <= n
      /\ 2 * (app.avgConfidence * n - ScoreOfFirst(opportunities, n)) <= n

\* C21 witness: the category 'bearish' keeps two of three loaded rows, and
\* the totals still count the three rows of the store
TotalsCountStoreNotView ==
  /\ loadReq.status = "done"
  /\ opportunities = << Opp1, Opp2, Opp3 >>
  /\ filterType = "bearish"
  /\ Len(filteredOpportunities) = 2
  /\ OpportunitiesFoundCount = 3
  /\ stats.totalOpportunities = 3
  /\ AppStats(opportunities).totalValue = 560

(***************************************************************************)
(* Properties of an analysis run's side effects                            *)
(***************************************************************************)
\* C22: lastAnalysisTime is null until a run succeeds and is written only
\* in the step in which a runTechnicalAnalysis ends with both requests
\* successful, the step that replaces the store with the list read's rows;
\* a failed run, the page-load list read and the health check leave it
\* unchanged.
LastAnalysisTimeOnlyOnSuccess ==
  /\ [](runsStarted = 0 => lastAnalysisTime = Null)
  /\ [][/\ lastAnalysisTime' # lastAnalysisTime =>
             \E i \in DOMAIN runs :
               /\ RunCompletes(i)
               /\ runs[i].stage = "opportunities"
               /\ runs[i].req.status = "ok"
               /\ lastAnalysisTime' # Null
               /\ opportunities' =
                    (IF runs[i].req.data = Null THEN << >>
                     ELSE Get(runs[i].req.data))
        /\ \A i \in DOMAIN runs :
             (RunCompletes(i) /\ runs[i].req.status = "fail") =>
               lastAnalysisTime' = lastAnalysisTime
        /\ \A i \in DOMAIN runs :
             (RunCompletes(i) /\ runs[i].req.status = "ok") =>
               lastAnalysisTime' # Null
        /\ (LoadCompletes \/ healthReq' # healthReq) =>
             lastAnalysisTime' = lastAnalysisTime]_vars

\* C22 witness: the first run succeeded and stamped the time, the second
\* run failed and the stamp of the first is still there
StampSurvivedFailedRun ==
  /\ runsStarted = 2
  /\ runs = << >>
  /\ lastAnalysisTime = Some(1)
  /\ error = Some(StrFailedToFetch \o StrNetworkError)

(***************************************************************************)
(* Properties of the sections and the fetch state                          *)
(***************************************************************************)
\* the fetch state of the overlay's controller
fetchState == << details, modalLoading, modalError >>

\* a step flips the flag of section s and no other flag
FlipsOnly(s) ==
  /\ expandedSections'[s] = ~expandedSections[s]
  /\ \A t \in Sections \ {s} : expandedSections'[t] = expandedSections[t]

\* toggling flips one flag and leaves the fetch state alone, and no start,
\* success or failure of a fetch changes a flag
SectionsAndFetchAreSeparate ==
  /\ expandedSections' # expandedSections =>
       /\ \E s \in Sections : FlipsOnly(s)
       /\ fetchState' = fetchState
       /\ detailReqs' = detailReqs
  /\ (fetchState' # fetchState \/ detailReqs' # detailReqs) =>
       expandedSections' = expandedSections

\* the controller is loaded: not loading, no error, details present
ControllerLoaded == ~modalLoading /\ modalError = Null /\ details # Null

\* C23 as stated: toggleSection(s) flips only the flag of s and leaves the
\* fetch state unchanged, no fetch transition changes a flag, a section
\* can be toggled in any fetch state of the open overlay, and section
\* content is rendered only when the controller is loaded.
SectionsToggleInAnyFetchState ==
  /\ [][SectionsAndFetchAreSeparate]_vars
  /\ [](isModalOpen => \A s \in Sections : ENABLED toggleSection(s))
  /\ [](\A s \in Sections : SectionContentRendered(s) => ControllerLoaded)

\* C23 amended: toggleSection(s) flips only the flag of s and leaves the
\* fetch state unchanged, no fetch transition changes a flag, a section
\* can be toggled exactly while the open overlay's controller is loaded
\* (the section headers are part of the loaded content), and section
\* content is rendered only when the controller is loaded.
SectionsToggleOnlyWhenLoaded ==
  /\ [][SectionsAndFetchAreSeparate]_vars
  /\ [](\A s \in Sections :
          (ENABLED toggleSection(s)) <=> (isModalOpen /\ ControllerLoaded))
  /\ [](\A s \in Sections : SectionContentRendered(s) => ControllerLoaded)

\* C23 witness: a second fetch is loading over the details of the first
\* while a section expanded earlier is still flagged; its content is not
\* rendered and its header cannot be clicked
ExpandedSectionHiddenWhileLoading ==
  /\ isModalOpen
  /\ modalLoading
  /\ details # Null
  /\ expandedSections["technical"]
  /\ ~SectionContentRendered("technical")
  /\ ~ENABLED toggleSection("technical")

(***************************************************************************)
(* Properties of the page's error message                                  *)
(***************************************************************************)
\* C24: the page holds at most one error message: a failed run (trigger or
\* list refresh) sets it to 'Failed to fetch trading opportunities: '
\* followed by the underlying message and leaves the store as it was; the
\* message stays until another message replaces it or the next run
\* starts, which clears it.
SingleErrorUntilReplaced ==
  /\ [](error = Null \/ Len(error) = 1)
  /\ [][/\ \A i \in DOMAIN runs :
             (RunCompletes(i) /\ runs[i].req.status = "fail") =>
               /\ error' = Some(StrFailedToFetch \o runs[i].req.message)
               /\ opportunities' = opportunities
        /\ runsStarted' # runsStarted => error' = Null
        /\ error' # error =>
             \/ runsStarted' # runsStarted /\ error' = Null
             \/ \E i \in DOMAIN runs :
                  /\ RunCompletes(i)
                  /\ runs[i].req.status = "fail"
             \/ /\ healthReq.status = "fail"
                /\ healthReq'.status = "done"
                /\ error' = Some(StrUnableToConnect)]_vars

\* C24 witness: the first run failed over a loaded store; the banner holds
\* the run's message and the two loaded rows are still in the store
RunErrorOverLoadedStore ==
  /\ loadReq.status = "done"
  /\ healthReq.status = "done"
  /\ runsStarted = 1
  /\ runs = << >>
  /\ opportunities = << Opp1, Opp2 >>
  /\ error = Some(StrFailedToFetch \o StrNetworkError)

(***************************************************************************)
(* Properties of the chart symbol                                          *)
(***************************************************************************)
\* r is s with every letter in upper case
IsUpperCased(r, s) ==
  /\ Len(r) = Len(s)
  /\ \A i \in DOMAIN s :
       /\ SameLetter(r[i], s[i])
       /\ ~\E k \in DOMAIN Lower : Lower[k] = r[i]

\* the ticker names an exchange
HasExchange(ticker) == \E i \in DOMAIN ticker : ticker[i] = ":"

Green == "text-green-400 bg-green-500/20"
Red == "text-red-400 bg-red-500/20"

\* C26 as stated: the copies of the keyword logic agree on every
\* setup_type: the rows the 'bullish' filter keeps are the rows the
\* dashboard counts as bullishSetups and the rows with the green badge,
\* and the rows the 'bearish' filter keeps are the rows counted as
\* bearishSetups and the rows with the red badge.
KeywordCopiesAgree ==
  searchTerm = << >> =>
    /\ filterType = "bullish" =>
         /\ Len(filteredOpportunities) = stats.bullishSetups
         /\ \A i \in DOMAIN opportunities :
              IsEntryOf(opportunities[i], filteredOpportunities)
                <=> getSetupTypeColor(opportunities[i].setup_type) = Green
    /\ filterType = "bearish" =>
         /\ Len(filteredOpportunities) = stats.bearishSetups
         /\ \A i \in DOMAIN opportunities :
              IsEntryOf(opportunities[i], filteredOpportunities)
                <=> getSetupTypeColor(opportunities[i].setup_type) = Red

\* C26 amended: the list filter and the dashboard stats agree on bullish
\* and on bearish, and the badge agrees with them on bullish (green); the
\* red badge marks the bearish rows that are not bullish as well, so a
\* bearish row has the red badge or, when it also holds a bullish keyword,
\* the green one.
KeywordCopiesAgreeButBadge ==
  searchTerm = << >> =>
    /\ filterType = "bullish" =>
         /\ Len(filteredOpportunities) = stats.bullishSetups
         /\ \A i \in DOMAIN opportunities :
              IsEntryOf(opportunities[i], filteredOpportunities)
                <=> getSetupTypeColor(opportunities[i].setup_type) = Green
    /\ filterType = "bearish" =>
         /\ Len(filteredOpportunities) = stats.bearishSetups
         /\ \A i \in DOMAIN opportunities :
              IsEntryOf(opportunities[i], filteredOpportunities)
                <=> \/ getSetupTypeColor(opportunities[i].setup_type) = Red
                    \/ /\ getSetupTypeColor(opportunities[i].setup_type) = Green
                       /\ HasBearishWord(opportunities[i])

\* C26 witness: under 'bearish' the view keeps the green-badged Bearish
\* Momentum row and the red-badged Short Squeeze row, the dashboard counts
\* two bearish setups, and the Breakout row is blue and left out
BearishViewHoldsGreenBadge ==
  /\ loadReq.status = "done"
  /\ searchTerm = << >>
  /\ filterType = "bearish"
  /\ opportunities = << Opp3, Opp2, Opp4 >>
  /\ filteredOpportunities = << Opp3, Opp2 >>
  /\ stats.bearishSetups = 2
  /\ getSetupTypeColor(Opp3.setup_type) = Green
  /\ getSetupTypeColor(Opp2.setup_type) = Red

(***************************************************************************)
(* Properties of superseded detail requests                                *)
(***************************************************************************)
\* The overlay is open on a row, shows that row's details and no error,
\* and no request for that row is pending: the request of this opening has
\* succeeded (a failure would have left an error that only a later request
\* clears).
OpenItemLoaded ==
  /\ isModalOpen
  /\ selectedOpportunity # Null
  /\ ~modalLoading
  /\ modalError = Null
  /\ details = Some(DetailPayload(Get(selectedOpportunity).id))
  /\ \A i \in DOMAIN detailReqs :
       detailReqs[i].key # Get(selectedOpportunity).id

\* C27: once the detail request of the open row has succeeded, and as long
\* as no later detail request is started and the overlay stays open, the
\* overlay displays that row's details and no error, also in the step
\* that handles the failure of the request of a row opened earlier.
LoadedItemSurvivesStaleFailure ==
  [][(/\ OpenItemLoaded
      /\ \E i \in DOMAIN detailReqs :
           DetailCompletes(i) /\ detailReqs[i].req.status = "fail"
      /\ isModalOpen'
      /\ selectedOpportunity' = selectedOpportunity
      /\ detailsIssued' = detailsIssued)
       => /\ details' = details
          /\ modalError' = Null
          /\ ~modalLoading']_vars

(***************************************************************************)
(* Properties of overlapping list reads                                    *)
(***************************************************************************)
\* C28: when no list read is pending the store holds the response of the
\* list read issued last among those that succeeded: the page-load list
\* read, issued before every run, does not overwrite the store when its
\* answer is handled after a run has ended with a successful list read.
StaleLoadKeepsRunStore ==
  [][(/\ LoadCompletes
      /\ loadReq.status = "ok"
      /\ lastAnalysisTime # Null
      /\ runs = << >>)
       => opportunities' = opportunities]_vars

(***************************************************************************)
(* Properties of the run flags                                             *)
(***************************************************************************)
\* C29: loading equals isAgentRunning in every state, and both are true
\* exactly while a runTechnicalAnalysis is in flight: they are set
\* together when a run starts and reset together when it ends, by success
\* or by the failure of either request, so the run control is enabled
\* again after every run.
RunFlagsFollowRun ==
  /\ [](/\ loading = isAgentRunning
        /\ loading <=> runs # << >>)
  /\ [][/\ runsStarted' # runsStarted => (loading' /\ isAgentRunning')
        /\ \A i \in DOMAIN runs :
             RunCompletes(i) =>
               /\ ~loading'
               /\ ~isAgentRunning'
               /\ ~HeaderButtonDisabled']_vars

\* C29 witness: the first run failed, the control was enabled again, and
\* the second run is now waiting for its list read with both flags set
SecondRunAfterFailedRun ==
  /\ runsStarted = 2
  /\ Len(runs) = 1
  /\ runs[1].stage = "opportunities"
  /\ lastAnalysisTime = Null
  /\ loading
  /\ isAgentRunning
  /\ error = Null


(***************************************************************************)
(* Properties of start-both.sh                                             *)
(***************************************************************************)
\* the return code the script stored for a service
ReturnCode(service) ==
  IF service = "backend" THEN BACKEND_READY ELSE FRONTEND_READY

ProbesMade(service) == probes[service].failed + probes[service].succeeded

WaitForServiceReturns ==
  \A service \in Services :
    /\ ProbesMade(service) <= max_attempts
    /\ probes[service].succeeded <= 1
    /\ probes[service].succeeded = 1 <=> ReturnCode(service) = Some(0)
    /\ ReturnCode(service) = Some(1) <=>
         /\ probes[service].failed = max_attempts
         /\ probes[service].succeeded = 0
         /\ pc # service

NoProbeAfterReturn ==
  \A service \in Services :
    ReturnCode(service) # Null => probes'[service] = probes[service]

ReadyLineIffBothReturnedZero ==
  /\ statusLine # "" <=> pc = "done"
  /\ pc = "done" =>
       (statusLine = StrSystemReady <=>
          BACKEND_READY = Some(0) /\ FRONTEND_READY = Some(0))

\* C30: wait_for_service ends after at most 30 probes; it returns 0 at the
\* first probe that succeeds and probes no more, and returns 1 exactly when
\* all 30 probes failed; the script reaches its end, and its closing line is
\* "Complete system is ready!" exactly when both waits returned 0.
WaitEndsWithinThirtyProbes ==
  /\ [](WaitForServiceReturns /\ ReadyLineIffBothReturnedZero)
  /\ [][NoProbeAfterReturn]_vars
  /\ <>(pc = "done")

\* the backend wait gave up after 30 failed probes, the frontend answered
\* its 30th probe, and the script closed with the failure line
BackendGaveUpFrontendAtLastAttempt ==
  /\ pc = "done"
  /\ BACKEND_READY = Some(1)
  /\ probes["backend"] = [failed |-> max_attempts, succeeded |-> 0]
  /\ FRONTEND_READY = Some(0)
  /\ probes["frontend"] = [failed |-> max_attempts - 1, succeeded |-> 1]
  /\ statusLine = StrSomeFailed

=============================================================================
